---- MODULE Spec2Model ----
(***************************************************************************)
(* Electrical network domain model of backend/app/modules/engine/models:   *)
(* the pydantic (v1 API: validator, Field(gt=...)) models Load and Conduit. *)
(* Construction is BaseModel.__init__: every declared field is validated   *)
(* in declaration order, all errors are collected, and the object exists   *)
(* only when there is no error.  Attribute assignment on an existing model *)
(* is BaseModel.__setattr__ under the default Config (no                   *)
(* validate_assignment, allow_mutation on).                                *)
(*                                                                         *)
(* Python values are tagged records [k, v]:                                *)
(*   k = "int"   : the int v                                               *)
(*   k = "float" : the float v/2 (floats are counted in halves)            *)
(*   k = "nan" / "pinf" / "ninf" : the float nan, +inf, -inf               *)
(*   k = "text"  : a str that is not a numeral                             *)
(* Identifiers are [k |-> "str", s |-> <<characters>>] or None.            *)
(***************************************************************************)
EXTENDS Integers, Sequences, FiniteSets, TLC

VARIABLES lreq, loads, lerrs, lpc, nupd,
          creq, conduits, cerrs, cpc, cfirst, nodes, edges, npc

vars == <<lreq, loads, lerrs, lpc, nupd,
          creq, conduits, cerrs, cpc, cfirst, nodes, edges, npc>>

loadVars == <<lreq, loads, lerrs, lpc, nupd>>
conduitVars == <<creq, conduits, cerrs, cpc, cfirst>>
netVars == <<nodes, edges, npc>>

(* ------------------------------ bounds -------------------------------- *)

\* Integers range over -MaxNum..MaxNum, floats over -1/2..(MaxNum+2)/2.
MaxNum == 1

\* In-place field assignments applied to one Load.
MaxUpdates == 1

(* ------------------------------ values -------------------------------- *)

PyInt(n) == [k |-> "int", v |-> n]
PyFloat(h) == [k |-> "float", v |-> h]
NaN == [k |-> "nan", v |-> 0]
PInf == [k |-> "pinf", v |-> 0]
NInf == [k |-> "ninf", v |-> 0]
Text == [k |-> "text", v |-> 0]

Str(s) == [k |-> "str", s |-> s]
NoneVal == [k |-> "none", s |-> <<>>]
OmittedStr == [k |-> "omitted", s |-> <<>>]

\* A keyword argument that is not passed.
Omitted == "<omitted>"
OmittedNum == [k |-> "omitted", v |-> 0]

NumInputs ==
    {PyInt(n) : n \in -MaxNum..MaxNum}
        \cup {PyFloat(h) : h \in -1..(MaxNum + 2)}
        \cup {NaN, PInf, NInf, Text}

IsNumber(a) == a.k \in {"int", "float", "nan", "pinf", "ninf"}
IsFinite(a) == a.k \in {"int", "float"}

\* The value of a finite number, in halves.
Halves(a) == IF a.k = "int" THEN 2 * a.v ELSE a.v

\* Python's  a > 0  on numbers (false for nan).
GtZero(a) == a.k = "pinf" \/ (IsFinite(a) /\ Halves(a) > 0)

\* Python's  a <= 0  on numbers (false for nan).
LeZero(a) == a.k = "ninf" \/ (IsFinite(a) /\ Halves(a) <= 0)

\* Python's  a == b  on numbers: 1 == 1.0, nan != nan.
NumEq(a, b) ==
    \/ IsFinite(a) /\ IsFinite(b) /\ Halves(a) = Halves(b)
    \/ a.k \in {"pinf", "ninf"} /\ a.k = b.k

Ok(val) == [ok |-> TRUE, val |-> val, err |-> ""]
Fail(val, err) == [ok |-> FALSE, val |-> val, err |-> err]

(* ------------------- pydantic field type validators ------------------- *)

\* x: float -- a float is kept, anything else goes through float(v).
float_validator(v) ==
    CASE v.k \in {"float", "nan", "pinf", "ninf"} -> Ok(v)
      [] v.k = "int" -> Ok(PyFloat(2 * v.v))
      [] OTHER -> Fail(v, "type_error.float")

\* Python's int(f) on a finite float counted in halves: truncation toward zero.
Trunc(h) == IF h >= 0 THEN h \div 2 ELSE -((-h) \div 2)

\* voltage: int -- an int is kept, anything else goes through int(v).
int_validator(v) ==
    CASE v.k = "int" -> Ok(v)
      [] v.k = "float" -> Ok(PyInt(Trunc(v.v)))
      [] OTHER -> Fail(v, "type_error.integer")

\* Field(..., gt=0): rejected when  not v > 0.
number_gt_zero(v) ==
    IF GtZero(v) THEN Ok(v) ELSE Fail(v, "value_error.number.not_gt")

\* A required field: a missing argument or None never reaches the validators.
required(v, next) ==
    CASE v.k = "omitted" -> Fail(v, "value_error.missing")
      [] v.k = "none" -> Fail(v, "type_error.none.not_allowed")
      [] OTHER -> next

(* ------------------------------- Load --------------------------------- *)

LoadType == {"TUG", "TUE", "LIGHTING", "OTHER"}

LoadTypeDefault == "TUG"

TypeInputs == LoadType \cup {"tug", Omitted}

finite_coords_nan_passes(v) ==
    IF ~IsNumber(v) \/ v.k \in {"pinf", "ninf"}
    THEN Fail(v, "value_error")
    ELSE Ok(IF v.k = "int" THEN PyFloat(2 * v.v) ELSE v)

\* @validator("x", "y"): runs on the float the type validator produced.
finite_coords(v) ==
    IF ~IsNumber(v) \/ v.k = "nan" \/ v.k \in {"pinf", "ninf"}
    THEN Fail(v, "value_error")
    ELSE Ok(IF v.k = "int" THEN PyFloat(2 * v.v) ELSE v)

coord_field(v) ==
    LET f == float_validator(v)
    IN  IF f.ok THEN finite_coords(f.val) ELSE f

power_field_ge(v) ==
    LET f == float_validator(v)
    IN  IF ~f.ok THEN f
        ELSE IF GtZero(f.val) \/ (IsFinite(f.val) /\ Halves(f.val) = 0)
             THEN Ok(f.val)
             ELSE Fail(f.val, "value_error.number.not_gt")

\* power: float = Field(..., gt=0)
power_field(v) ==
    LET f == float_validator(v)
    IN  IF f.ok THEN number_gt_zero(f.val) ELSE f

\* voltage: int = Field(..., gt=0)
voltage_field(v) ==
    LET f == int_validator(v)
    IN  IF f.ok THEN number_gt_zero(f.val) ELSE f

type_field_fallback(t) ==
    IF t \in LoadType THEN Ok(t) ELSE Ok(LoadTypeDefault)

\* type: LoadType = LoadType.TUG -- the default is used as is when the
\* argument is not passed; a passed value must be a member of the enum.
type_field(t) ==
    CASE t = Omitted -> Ok(LoadTypeDefault)
      [] t \in LoadType -> Ok(t)
      [] OTHER -> Fail(t, "type_error.enum")

\* id: str
str_field(v) == required(v, IF v.k = "str" THEN Ok(v) ELSE Fail(v, "type_error.str"))

LoadFields == {"id", "x", "y", "power", "voltage", "type"}

\* The outcome of validating each field of a Load(...) call.
LoadFieldResult(req, f) ==
    CASE f = "id" -> str_field(req.id)
      [] f = "x" -> coord_field(req.x)
      [] f = "y" -> coord_field(req.y)
      [] f = "power" -> power_field(req.power)
      [] f = "voltage" -> voltage_field(req.voltage)
      [] f = "type" -> type_field(req.type)

\* The errors of a Load(...) call: every failing field reports its error.
LoadErrors(req) ==
    {<<f, LoadFieldResult(req, f).err>> : f \in {g \in LoadFields : ~LoadFieldResult(req, g).ok}}

\* The object a successful Load(...) call returns.
LoadObject(req) == [f \in LoadFields |-> LoadFieldResult(req, f).val]

LoadRequests ==
    [id : {Str(<<"l", "1">>)}, x : NumInputs, y : NumInputs, power : NumInputs,
     voltage : NumInputs, type : TypeInputs]

\* Values an attribute assignment may supply to a field.
AssignInputs(f) ==
    CASE f = "type" -> TypeInputs \ {Omitted}
      [] f = "id" -> {Str(<<"l", "2">>)}
      [] OTHER -> NumInputs

(* ------------------------------ Conduit ------------------------------- *)

distinct_nodes_off(v, values) == Ok(v)

\* @validator("to_node"): values holds the fields validated before to_node.
distinct_nodes(v, values) ==
    IF "from_node" \in DOMAIN values /\ v = values["from_node"]
    THEN Fail(v, "value_error")
    ELSE Ok(v)

length_field_ge(v) == power_field_ge(v)

\* length: float = Field(..., gt=0); diameter: float = Field(..., gt=0)
length_field(v) ==
    LET f == float_validator(v)
    IN  IF f.ok THEN number_gt_zero(f.val) ELSE f

\* The fields the class declares; any other keyword argument is ignored.
ConduitFields == {"id", "from_node", "to_node", "length", "diameter", "material"}

\* The values dict handed to the to_node validator: id and from_node when valid.
ValuesBeforeToNode(req) ==
    [f \in {g \in {"id", "from_node"} : str_field(req[g]).ok} |-> str_field(req[f]).val]

ConduitFieldResult(req, f) ==
    CASE f \in {"id", "from_node", "material"} -> str_field(req[f])
      [] f = "to_node" ->
            LET t == str_field(req.to_node)
            IN  IF t.ok THEN distinct_nodes(t.val, ValuesBeforeToNode(req)) ELSE t
      [] f \in {"length", "diameter"} -> length_field(req[f])

ConduitErrorsWithOccupancy(req) ==
    {<<f, ConduitFieldResult(req, f).err>> :
        f \in {g \in ConduitFields : ~ConduitFieldResult(req, g).ok}}
    \cup IF req.occupancy_percent.k \in {"int", "float"}
            /\ (Halves(req.occupancy_percent) < 0 \/ Halves(req.occupancy_percent) > 200)
         THEN {<<"occupancy_percent", "value_error">>}
         ELSE {}

\* The errors of a Conduit(...) call.
ConduitErrors(req) ==
    {<<f, ConduitFieldResult(req, f).err>> :
        f \in {g \in ConduitFields : ~ConduitFieldResult(req, g).ok}}

\* The object a successful Conduit(...) call returns.
ConduitObject(req) == [f \in ConduitFields |-> ConduitFieldResult(req, f).val]

NodeInputs ==
    {Str(<<"a">>), Str(<<" ", "a">>), Str(<<"a", " ">>), Str(<<"b">>), NoneVal}

\* occupancy_percent arguments: not passed, or a number around 0 or around 100.
OccupancyInputs ==
    {OmittedNum} \cup {PyInt(n) : n \in -MaxNum..MaxNum}
        \cup {PyInt(100 + n) : n \in -MaxNum..MaxNum}

ConduitRequests ==
    [id : {Str(<<"c", "1">>)}, from_node : NodeInputs, to_node : NodeInputs,
     length : NumInputs, diameter : NumInputs,
     material : {Str(<<"P", "V", "C">>), OmittedStr},
     occupancy_percent : OccupancyInputs]

\* Identifiers of Loads that may be present in the network.
NodeNames == {<<"a">>, <<"b">>}

(* ------------------------- idle parts of the state --------------------- *)

ConduitIdle ==
    /\ creq = {}
    /\ conduits = {}
    /\ cerrs = {}
    /\ cpc = "idle"
    /\ cfirst = {}

NetIdle ==
    /\ nodes = {}
    /\ edges = {}
    /\ npc = "idle"

LoadIdle ==
    /\ lreq = {}
    /\ loads = {}
    /\ lerrs = {}
    /\ lpc = "idle"
    /\ nupd = 0

(* --------------------------- Load lifecycle ---------------------------- *)

InitLoad ==
    /\ lreq \in {{r} : r \in LoadRequests}
    /\ loads = {}
    /\ lerrs = {}
    /\ lpc = "request"
    /\ nupd = 0

\* load = Load(**req): raises ValidationError(errors) or returns the object.
ConstructLoad ==
    /\ lpc = "request"
    /\ \E req \in lreq :
        LET errs == LoadErrors(req)
        IN  /\ lerrs' = errs
            /\ loads' = IF errs = {} THEN {LoadObject(req)} ELSE {}
            /\ lpc' = IF errs = {} THEN "constructed" ELSE "rejected"
    /\ UNCHANGED <<lreq, nupd, conduitVars, netVars>>

\* load.<f> = value: BaseModel.__setattr__ with the default Config stores the
\* value without running any validator.
UpdateLoad ==
    /\ lpc \in {"constructed", "updated"}
    /\ nupd < MaxUpdates
    /\ \E l \in loads, f \in LoadFields \ {"id"} : \E value \in AssignInputs(f) :
        loads' = {[l EXCEPT ![f] = value]}
    /\ lpc' = "updated"
    /\ nupd' = nupd + 1
    /\ lreq' = {}
    /\ UNCHANGED <<lerrs, conduitVars, netVars>>

Init == InitLoad /\ ConduitIdle /\ NetIdle

Next == ConstructLoad \/ UpdateLoad

Spec == Init /\ [][Next]_vars

(* -------------------------- Conduit lifecycle -------------------------- *)

InitConduit ==
    /\ creq \in {{r} : r \in ConduitRequests}
    /\ conduits = {}
    /\ cerrs = {}
    /\ cpc = "request"
    /\ cfirst = {}
    /\ nodes = {}
    /\ edges = {}
    /\ npc = "idle"
    /\ LoadIdle

ConstructConduitChecked ==
    /\ cpc = "request"
    /\ \E req \in creq :
        LET errs == ConduitErrors(req) \cup
                    {<<f, "dangling_reference">> :
                        f \in {g \in {"from_node", "to_node"} : req[g].s \notin nodes}}
        IN  /\ cerrs' = errs
            /\ conduits' = IF errs = {} THEN {ConduitObject(req)} ELSE {}
            /\ cfirst' = IF cfirst = {}
                         THEN {[errs |-> errs,
                                conduits |-> IF errs = {} THEN {ConduitObject(req)} ELSE {}]}
                         ELSE cfirst
    /\ cpc' = "done"
    /\ UNCHANGED <<creq, loadVars, netVars>>

\* conduit = Conduit(**req): the call reads its arguments only.
ConstructConduit ==
    /\ cpc = "request"
    /\ \E req \in creq :
        LET errs == ConduitErrors(req)
        IN  /\ cerrs' = errs
            /\ conduits' = IF errs = {} THEN {ConduitObject(req)} ELSE {}
            /\ cfirst' = IF cfirst = {}
                         THEN {[errs |-> errs,
                                conduits |-> IF errs = {} THEN {ConduitObject(req)} ELSE {}]}
                         ELSE cfirst
    /\ cpc' = "done"
    /\ UNCHANGED <<creq, loadVars, netVars>>

\* A Load joins the network between two Conduit(...) calls with the same
\* arguments.
PlaceLoad ==
    /\ cpc = "done"
    /\ \E n \in NodeNames \ nodes : nodes' = nodes \cup {n}
    /\ cpc' = "request"
    /\ UNCHANGED <<creq, conduits, cerrs, cfirst, edges, npc, loadVars>>

NextConduit == ConstructConduit \/ PlaceLoad

SpecConduit == InitConduit /\ [][NextConduit]_vars

(* ------------------------- Network connectivity ------------------------ *)

\* Node identifiers of the connectivity scenarios.
NetNames == {<<"A">>, <<"B">>, <<"C">>, <<"D">>}

Edge(a, b) == [from_node |-> a, to_node |-> b]

\* Direction carries no meaning: a conduit joins its two endpoints.
Adjacent(a, b) == Edge(a, b) \in edges \/ Edge(b, a) \in edges

Neighbours(S) == {n \in nodes : \E m \in S : Adjacent(m, n)}

RECURSIVE Traverse(_, _)
\* Breadth-first traversal: visited so far, and the frontier still to expand.
Traverse(visited, frontier) ==
    IF frontier = {} THEN visited
    ELSE Traverse(visited \cup frontier, Neighbours(frontier) \ (visited \cup frontier))

connected_component_direct(node_id) ==
    IF node_id \in nodes THEN {node_id} \cup Neighbours({node_id}) ELSE {}

\* connected_component(node_id): every node reachable via conduits.
connected_component(node_id) ==
    IF node_id \in nodes THEN Traverse({}, {node_id}) ELSE {}

\* shares_circuit(node_a, node_b)
shares_circuit(node_a, node_b) ==
    node_a \in nodes /\ node_b \in connected_component(node_a)

InitNet ==
    /\ nodes = {}
    /\ edges = {}
    /\ npc = "ok"
    /\ LoadIdle
    /\ ConduitIdle

\* add_node(load)
add_node ==
    /\ \E n \in NetNames \ nodes : nodes' = nodes \cup {n}
    /\ npc' = "ok"
    /\ UNCHANGED <<edges, loadVars, conduitVars>>

\* remove_node(id) under the cascade policy: conduits at the node go with it.
remove_node_cascade ==
    /\ \E n \in nodes :
        /\ nodes' = nodes \ {n}
        /\ edges' = {e \in edges : e.from_node # n /\ e.to_node # n}
    /\ npc' = "ok"
    /\ UNCHANGED <<loadVars, conduitVars>>

\* remove_node(id) under the reject policy: a referenced node stays.
remove_node_reject ==
    /\ \E n \in nodes :
        IF \E e \in edges : e.from_node = n \/ e.to_node = n
        THEN npc' = "Referenced" /\ UNCHANGED <<nodes, edges>>
        ELSE npc' = "ok" /\ nodes' = nodes \ {n} /\ UNCHANGED edges
    /\ UNCHANGED <<loadVars, conduitVars>>

\* add_edge(conduit): the conduit passed validation, so its endpoints differ.
add_edge ==
    /\ \E a \in NetNames : \E b \in NetNames \ {a} :
        IF a \in nodes /\ b \in nodes
        THEN npc' = "ok" /\ edges' = edges \cup {Edge(a, b)}
        ELSE npc' = "DanglingReference" /\ UNCHANGED edges
    /\ UNCHANGED <<nodes, loadVars, conduitVars>>

NextNet == add_node \/ remove_node_cascade \/ remove_node_reject \/ add_edge

SpecNet == InitNet /\ [][NextNet]_vars

(* ------------------------------- claims -------------------------------- *)

\* What the specification calls a valid argument, field by field.
ValidId(v) == v.k = "str"
ValidCoord(v) == IsFinite(v)
ValidPositive(v) == IsNumber(v) /\ GtZero(v)
ValidVoltage(v) == v.k = "int" /\ v.v > 0
ValidType(t) == t \in LoadType \cup {Omitted}
NonFinite(v) == v.k \in {"nan", "pinf", "ninf"}

LoadArgsValidExcept(req, f) ==
    /\ ValidId(req.id)
    /\ f = "x" \/ ValidCoord(req.x)
    /\ f = "y" \/ ValidCoord(req.y)
    /\ f = "power" \/ ValidPositive(req.power)
    /\ f = "voltage" \/ ValidVoltage(req.voltage)
    /\ f = "type" \/ ValidType(req.type)

ConduitArgsValid(req) ==
    /\ ValidId(req.id)
    /\ ValidId(req.from_node)
    /\ ValidId(req.to_node)
    /\ req.from_node # req.to_node
    /\ ValidPositive(req.length)
    /\ ValidPositive(req.diameter)
    /\ ValidId(req.material)

AfterConstructLoad == lpc \in {"constructed", "rejected"}

InvalidPower == <<"power", "value_error.number.not_gt">>
InvalidCoordinateX == <<"x", "value_error">>
InvalidCoordinateY == <<"y", "value_error">>
InvalidCategory == <<"type", "type_error.enum">>
InvalidLength == <<"length", "value_error.number.not_gt">>
InvalidDiameter == <<"diameter", "value_error.number.not_gt">>
SelfLoop == <<"to_node", "value_error">>

\* C1: with the other fields valid, a power <= 0 (zero included) is rejected
\* with the power error and nothing else, and a power > 0 is accepted and the
\* load's power equals the supplied power.
C1_PowerValidation ==
    AfterConstructLoad =>
        \A req \in lreq :
            LoadArgsValidExcept(req, "power") =>
                /\ (IsNumber(req.power) /\ LeZero(req.power)) =>
                        (loads = {} /\ lerrs = {InvalidPower})
                /\ (IsNumber(req.power) /\ GtZero(req.power)) =>
                        /\ lerrs = {}
                        /\ loads # {}
                        /\ \A l \in loads : NumEq(l.power, req.power)

C1_Witness ==
    /\ lpc = "rejected"
    /\ \E req \in lreq : LoadArgsValidExcept(req, "power") /\ req.power = PyInt(0)

\* C2: every Load that exists satisfies all Load invariants, also after
\* in-place field updates.
C2_LoadInvariantsPreserved ==
    \A l \in loads :
        /\ ValidPositive(l.power)
        /\ ValidVoltage(l.voltage)
        /\ ValidCoord(l.x)
        /\ ValidCoord(l.y)
        /\ l.type \in LoadType

RECURSIVE LStrip(_)
LStrip(s) == IF s # <<>> /\ Head(s) = " " THEN LStrip(Tail(s)) ELSE s

RECURSIVE RStrip(_)
RStrip(s) ==
    IF s # <<>> /\ s[Len(s)] = " " THEN RStrip(SubSeq(s, 1, Len(s) - 1)) ELSE s

\* Identifier normalization: surrounding blanks removed.
Trim(s) == RStrip(LStrip(s))

\* C3 as stated: endpoints equal after normalization are rejected with SelfLoop.
C3_SelfLoopNormalized ==
    cpc = "done" =>
        \A req \in creq :
            (ValidId(req.from_node) /\ ValidId(req.to_node)
                /\ Trim(req.from_node.s) = Trim(req.to_node.s)) =>
                    (conduits = {} /\ SelfLoop \in cerrs)

\* C3 amended: endpoints that are the same string, character for character,
\* are rejected with SelfLoop whatever length and diameter are.
C3_SelfLoopExact ==
    cpc = "done" =>
        \A req \in creq :
            (ValidId(req.from_node) /\ ValidId(req.to_node)
                /\ req.from_node.s = req.to_node.s) =>
                    (conduits = {} /\ SelfLoop \in cerrs)

C3_Witness ==
    /\ cpc = "done"
    /\ SelfLoop \in cerrs
    /\ InvalidLength \in cerrs
    /\ \E req \in creq : req.from_node = req.to_node /\ ValidPositive(req.diameter)

OccupancyOutOfRange(v) ==
    IsFinite(v) /\ (Halves(v) < 0 \/ Halves(v) > 200)

OccupancyBoundary(v) == IsFinite(v) /\ Halves(v) \in {0, 200}

C5_NonFiniteCoordinates ==
    AfterConstructLoad =>
        /\ \A req \in lreq :
            /\ NonFinite(req.x) => (loads = {} /\ InvalidCoordinateX \in lerrs)
            /\ NonFinite(req.y) => (loads = {} /\ InvalidCoordinateY \in lerrs)
            /\ ((NonFinite(req.x) \/ NonFinite(req.y))
                    /\ (NonFinite(req.x) \/ ValidCoord(req.x))
                    /\ (NonFinite(req.y) \/ ValidCoord(req.y))
                    /\ ValidPositive(req.power) /\ ValidVoltage(req.voltage)
                    /\ ValidType(req.type)) =>
                        lerrs \subseteq {InvalidCoordinateX, InvalidCoordinateY}
        /\ \A l \in loads : IsFinite(l.x) /\ IsFinite(l.y)

C5_Witness ==
    /\ lpc = "rejected"
    /\ lerrs = {InvalidCoordinateX}
    /\ \E req \in lreq : req.x = NaN /\ LoadArgsValidExcept(req, "x")

\* C6: every field of a successfully constructed Load reads back as exactly
\* the value supplied for it, same value and same representation.
C6_RoundTripExact ==
    lpc = "constructed" =>
        \A req \in lreq : \A l \in loads : \A f \in LoadFields :
            (f = "type" /\ req.type = Omitted) \/ l[f] = req[f]

\* C7: a type outside the enumeration is rejected with the category error and
\* no load results; an omitted type gives the category TUG.
C7_ClosedCategory ==
    AfterConstructLoad =>
        /\ \A req \in lreq :
            /\ ~ValidType(req.type) => (loads = {} /\ InvalidCategory \in lerrs)
            /\ (req.type = Omitted /\ LoadArgsValidExcept(req, "type")) =>
                    /\ lerrs = {}
                    /\ loads # {}
                    /\ \A l \in loads : l.type = "TUG"
            /\ \A l \in loads : req.type = Omitted \/ l.type = req.type
        /\ \A l \in loads : l.type \in LoadType

C7_Witness ==
    /\ lpc = "rejected"
    /\ lerrs = {InvalidCategory}
    /\ \E req \in lreq : req.type = "tug"

C9_NodeSetIndependent ==
    cpc = "done" =>
        /\ \A req \in creq :
            (ConduitArgsValid(req)
                /\ req.from_node.s \notin nodes /\ req.to_node.s \notin nodes) =>
                    (conduits # {} /\ cerrs = {})
        /\ cfirst = {[errs |-> cerrs, conduits |-> conduits]}

C9_Witness ==
    /\ cpc = "done"
    /\ nodes # {}
    /\ conduits # {}
    /\ \E req \in creq : req.from_node.s \notin nodes /\ req.to_node.s \notin nodes

\* Same connected component, stated without a traversal: b lies in every set
\* of nodes that holds a and is closed under adjacency.
SameComponent(a, b) ==
    /\ a \in nodes
    /\ b \in nodes
    /\ \A S \in SUBSET nodes :
        (a \in S /\ \A m \in S : \A n \in nodes : Adjacent(m, n) => n \in S) => b \in S

\* C10: shares_circuit(a, b) is true exactly when a and b are in the same
\* connected component; with conduits A-B and B-C, shares_circuit(A, C) holds,
\* and with A-B as the only conduit it does not.
C10_SharesCircuit ==
    /\ \A a \in NetNames : \A b \in NetNames :
        shares_circuit(a, b) <=> SameComponent(a, b)
    /\ ({<<"A">>, <<"B">>, <<"C">>} \subseteq nodes
            /\ Adjacent(<<"A">>, <<"B">>) /\ Adjacent(<<"B">>, <<"C">>)) =>
                shares_circuit(<<"A">>, <<"C">>)
    /\ ({<<"A">>, <<"B">>, <<"C">>} \subseteq nodes
            /\ edges \subseteq {Edge(<<"A">>, <<"B">>), Edge(<<"B">>, <<"A">>)}) =>
                ~shares_circuit(<<"A">>, <<"C">>)

C10_Witness ==
    /\ {<<"A">>, <<"B">>, <<"C">>} \subseteq nodes
    /\ Adjacent(<<"A">>, <<"B">>)
    /\ Adjacent(<<"B">>, <<"C">>)
    /\ ~Adjacent(<<"A">>, <<"C">>)
    /\ shares_circuit(<<"A">>, <<"C">>)

====
